---- MODULE Spec2Model ----
(***************************************************************************)
(* Model of src/xmpptools.py: the XMPPTools bot (message handlers, command *)
(* dispatch, the three diagnostic queries) on top of a request/response    *)
(* IQ layer.                                                               *)
(*                                                                         *)
(* Text is modelled as a sequence of atoms (short strings): the trigger    *)
(* "!xmpp", the space " ", the tab "\t", and words.  Concatenation is \o,  *)
(* the empty string is << >>.  An optional text (the result of findtext,   *)
(* or the .text of an element) is << >> for None and <<t>> for the text t. *)
(***************************************************************************)
EXTENDS Integers, Sequences, FiniteSets, TLC

VARIABLES
  tasks,    \* the calls of handle_command made so far, in order: the message
            \* and handler that made the call, where the coroutine stands
            \* (await / done / raised), and its locals
  sentIqs,  \* every IQ request sent so far, in order
  pending,  \* the requests whose `await iq.send()` has not returned yet
  wire,     \* the requests their target has not answered yet
  outbox,   \* every message the bot has sent so far, in order
  nrecv,    \* number of inbound messages delivered to the handlers
  lastMsg   \* the inbound message delivered last

vars == <<tasks, sentIqs, pending, wire, outbox, nrecv, lastMsg>>

----------------------------------------------------------------------------
(* Bounds *)

MaxMsgs == 2
MaxBodyLen == 5
MaxForms == 2
MaxFields == 2

----------------------------------------------------------------------------
(* Python string primitives on atom sequences *)

Prefix == "!xmpp"
Space == " "
Tab == "\t"
Whitespace == {Space, Tab}

None == << >>
Some(t) == <<t>>

\* what an f-string prints for an optional text
Str(o) == IF o = None THEN <<"None">> ELSE o[1]

\* truthiness of an optional text: neither None nor ''
Truthy(o) == o # None /\ o[1] # << >>

startswith(s, atom) == Len(s) >= 1 /\ s[1] = atom

\* index of the first sep in s, 0 when there is none
Find(s, sep) ==
  IF \E i \in 1..Len(s) : s[i] = sep
  THEN CHOOSE i \in 1..Len(s) : s[i] = sep /\ \A j \in 1..(i - 1) : s[j] # sep
  ELSE 0

RECURSIVE split(_, _, _)
\* s.split(sep, maxsplit)
split(s, sep, maxsplit) ==
  LET i == Find(s, sep) IN
  IF maxsplit = 0 \/ i = 0
  THEN <<s>>
  ELSE <<SubSeq(s, 1, i - 1)>> \o split(SubSeq(s, i + 1, Len(s)), sep, maxsplit - 1)

RECURSIVE lstrip(_)
lstrip(s) == IF s # << >> /\ s[1] \in Whitespace THEN lstrip(Tail(s)) ELSE s

RECURSIVE rstrip(_)
rstrip(s) ==
  IF s # << >> /\ s[Len(s)] \in Whitespace THEN rstrip(SubSeq(s, 1, Len(s) - 1)) ELSE s

\* s.strip()
strip(s) == rstrip(lstrip(s))

RECURSIVE join(_, _)
\* sep.join(list)
join(sep, list) ==
  IF list = << >> THEN << >>
  ELSE IF Len(list) = 1 THEN list[1]
  ELSE list[1] \o sep \o join(sep, Tail(list))

----------------------------------------------------------------------------
(* The bot's configuration (constructor arguments) *)

Nick == "bot"
Room == "room@muc"
Peer == "alice@example"

----------------------------------------------------------------------------
(* Fixed texts *)

NL == "\n"
UseHelpMsg == <<"Use \"!xmpp help\" to list all commands.">>
UnknownMsg == <<"Unknown command. Use \"!xmpp help\" to list all commands.">>
HelpMsg ==
  << "Available commands:", NL,
     "!xmpp version - shows the version of an XMPP service.", NL,
     "!xmpp items - shows the items of an XMPP service.", NL,
     "!xmpp contact - shows the contact information of an XMPP service.", NL,
     "!xmpp help - displays this message." >>
VersionUsage ==
  <<"!xmpp version - shows the version of an XMPP service.", NL,
    "Usage: !xmpp version <service>">>
ItemsUsage ==
  <<"!xmpp items - shows the items of an XMPP service.", NL,
    "Usage: !xmpp items <service>">>
ContactUsage ==
  <<"!xmpp contact - shows the contact information of an XMPP service.", NL,
    "Usage: !xmpp contact <service>">>

\* self.commands: the keys of the table
commands == {<<"help">>, <<"version">>, <<"items">>, <<"contact">>}

ContactCategories ==
  {"abuse-addresses", "admin-addresses", "feedback-addresses", "sales-addresses",
   "security-addresses", "status-addresses", "support-addresses"}

----------------------------------------------------------------------------
(* Results of running a coroutine up to its first suspension or its end *)

Return(text) == [kind |-> "return", text |-> text]
Await(cmd, service) == [kind |-> "await", cmd |-> cmd, service |-> service]
Raise(exc) == [kind |-> "raise", exc |-> exc]

----------------------------------------------------------------------------
(* What `await iq.send()` / `await disco.get_items()` hands back: a result *)
(* stanza, or one of the two exceptions the handlers catch.                *)

IqError(frm, text) == [type |-> "error", frm |-> frm, payload |-> [text |-> text]]
IqTimeout == [type |-> "timeout", frm |-> << >>, payload |-> [text |-> <<"Request timed out">>]]
IqResult(frm, payload) == [type |-> "result", frm |-> frm, payload |-> payload]
NoResult == [type |-> "none", frm |-> << >>, payload |-> [text |-> << >>]]

\* str(e) of a caught IqError / IqTimeout
ExcText(o) == o.payload.text

----------------------------------------------------------------------------
(* cmd_help *)

cmd_help(parts) == Return(HelpMsg)

----------------------------------------------------------------------------
(* version *)

\* get_service_version: the IQ it builds
VersionIq(server) == [id |-> <<"version_1">>, to |-> server, query |-> "jabber:iq:version"]

\* get_service_version after the await: decode the result
get_service_version(result) ==
  IF ~result.payload.query
  THEN Raise("AttributeError")
  ELSE Return([name |-> result.payload.name,
               version |-> result.payload.version,
               os |-> result.payload.os])

\* cmd_version with the blank-argument test left out
cmd_version_noblank(parts) ==
  IF Len(parts) < 3
  THEN Return(VersionUsage)
  ELSE Await("version", strip(parts[3]))

\* cmd_version up to the await
cmd_version(parts) ==
  IF Len(parts) < 3 \/ strip(parts[3]) = << >>
  THEN Return(VersionUsage)
  ELSE Await("version", strip(parts[3]))

\* cmd_version that never reports the os
cmd_version_resume_noos(server, o) ==
  IF o.type \in {"error", "timeout"}
  THEN Return(<<"Could not retrieve version for ">> \o server \o <<": ">> \o ExcText(o))
  ELSE LET got == get_service_version(o) IN
       IF got.kind = "raise" THEN got
       ELSE Return(server \o <<" is running ">> \o Str(got.text.name) \o <<" ">>
                   \o Str(got.text.version) \o <<".">>)

\* cmd_version from the await on
cmd_version_resume(server, o) ==
  IF o.type \in {"error", "timeout"}
  THEN Return(<<"Could not retrieve version for ">> \o server \o <<": ">> \o ExcText(o))
  ELSE LET got == get_service_version(o) IN
       IF got.kind = "raise" THEN got
       ELSE LET version_info == got.text IN
            IF Truthy(version_info.os)
            THEN Return(server \o <<" is running ">> \o Str(version_info.name) \o <<" ">>
                        \o Str(version_info.version) \o <<" on ">> \o Str(version_info.os)
                        \o <<".">>)
            ELSE Return(server \o <<" is running ">> \o Str(version_info.name) \o <<" ">>
                        \o Str(version_info.version) \o <<".">>)

----------------------------------------------------------------------------
(* items *)

\* get_service_items: the disco#items IQ; the disco plugin chooses the id
ItemsIq(service, n) ==
  [id |-> <<"auto", n>>, to |-> service, query |-> "http://jabber.org/protocol/disco#items"]

\* get_service_items after the await
get_service_items(result) == Return(result.payload.items)

ItemLine(item) ==
  item.jid \o (IF Truthy(item.name) THEN <<" - ">> \o Str(item.name) ELSE << >>)

cmd_items(parts) ==
  IF Len(parts) < 3 \/ strip(parts[3]) = << >>
  THEN Return(ItemsUsage)
  ELSE Await("items", strip(parts[3]))

cmd_items_resume(service, o) ==
  IF o.type \in {"error", "timeout"}
  THEN Return(<<"Could not retrieve items for ">> \o service \o <<": ">> \o ExcText(o))
  ELSE LET items == get_service_items(o).text IN
       IF items # << >>
       THEN Return(<<"Items for service ">> \o service \o <<":", NL>>
                   \o join(<<NL>>, [i \in 1..Len(items) |-> ItemLine(items[i])]))
       ELSE Return(<<"No items found for service ">> \o service \o <<".">>)

----------------------------------------------------------------------------
(* contact *)

ContactIq(service) ==
  [id |-> <<"disco_info_1">>, to |-> service, query |-> "http://jabber.org/protocol/disco#info"]

\* contact_info[var] = values on an insertion-ordered dict kept as a
\* sequence of <<key, value>> entries: an existing key keeps its place
DictSet(d, var, values) ==
  IF \E i \in 1..Len(d) : d[i].var = var
  THEN [i \in 1..Len(d) |-> IF d[i].var = var THEN [var |-> var, values |-> values] ELSE d[i]]
  ELSE Append(d, [var |-> var, values |-> values])

RECURSIVE ScanFields(_, _)
\* the inner loop over the fields of one data form
ScanFields(fields, contact_info) ==
  IF fields = << >> THEN contact_info
  ELSE LET field == Head(fields) IN
       ScanFields(Tail(fields),
                  IF field.var \in ContactCategories
                  THEN DictSet(contact_info, field.var, field.values)
                  ELSE contact_info)

RECURSIVE ScanForms(_, _)
\* the outer loop over the x elements of the query
ScanForms(forms, contact_info) ==
  IF forms = << >> THEN contact_info
  ELSE LET x == Head(forms) IN
       ScanForms(Tail(forms),
                 IF x.type = "result" THEN ScanFields(x.fields, contact_info)
                 ELSE contact_info)

\* get_service_contact_info after the await
get_service_contact_info(result) ==
  IF ~result.payload.query
  THEN Raise("AttributeError")
  ELSE Return(ScanForms(result.payload.forms, << >>))

\* field.replace('-addresses', '').replace('-', ' ').title().strip()
FieldName(var) ==
  CASE var = "abuse-addresses" -> "Abuse"
    [] var = "admin-addresses" -> "Admin"
    [] var = "feedback-addresses" -> "Feedback"
    [] var = "sales-addresses" -> "Sales"
    [] var = "security-addresses" -> "Security"
    [] var = "status-addresses" -> "Status"
    [] var = "support-addresses" -> "Support"

ValueLine(value) == <<"  - ">> \o Str(value)

RECURSIVE RenderFields(_)
\* the loop over contact_info.items()
RenderFields(d) ==
  IF d = << >> THEN << >>
  ELSE LET values == Head(d).values IN
       (IF values # << >>
        THEN <<NL, FieldName(Head(d).var), ":", NL>>
             \o join(<<NL>>, [i \in 1..Len(values) |-> ValueLine(values[i])])
             \o <<NL>>
        ELSE << >>)
       \o RenderFields(Tail(d))

cmd_contact(parts) ==
  IF Len(parts) < 3 \/ strip(parts[3]) = << >>
  THEN Return(ContactUsage)
  ELSE Await("contact", strip(parts[3]))

cmd_contact_resume(service, o) ==
  IF o.type \in {"error", "timeout"}
  THEN Return(<<"Could not retrieve contact information for ">> \o service \o <<": ">>
              \o ExcText(o))
  ELSE LET got == get_service_contact_info(o) IN
       IF got.kind = "raise" THEN got
       ELSE LET contact_info == got.text IN
            IF contact_info # << >>
            THEN Return(<<"Contact information for service ">> \o service \o <<":", NL>>
                        \o RenderFields(contact_info))
            ELSE Return(<<"No contact information found for service ">> \o service \o <<".">>)

----------------------------------------------------------------------------
(* handle_command *)

\* handle_command falling back to cmd_help for a name the table lacks
handle_command_fallback(body) ==
  LET parts == split(body, Space, 2) IN
  IF Len(parts) < 2 \/ strip(parts[2]) = << >>
  THEN Return(UseHelpMsg)
  ELSE LET command == strip(parts[2]) IN
       CASE command = <<"version">> -> cmd_version(parts)
         [] command = <<"items">> -> cmd_items(parts)
         [] command = <<"contact">> -> cmd_contact(parts)
         [] OTHER -> cmd_help(parts)

\* handle_command up to the first await (or to its end)
handle_command(body) ==
  LET parts == split(body, Space, 2) IN
  IF Len(parts) < 2 \/ strip(parts[2]) = << >>
  THEN Return(UseHelpMsg)
  ELSE LET command == strip(parts[2]) IN
       IF command \in commands
       THEN CASE command = <<"help">> -> cmd_help(parts)
              [] command = <<"version">> -> cmd_version(parts)
              [] command = <<"items">> -> cmd_items(parts)
              [] command = <<"contact">> -> cmd_contact(parts)
       ELSE Return(UnknownMsg)

\* handle_command from the await on: the suspended cmd_* handler continues
handle_command_resume(cmd, service, o) ==
  CASE cmd = "version" -> cmd_version_resume(service, o)
    [] cmd = "items" -> cmd_items_resume(service, o)
    [] cmd = "contact" -> cmd_contact_resume(service, o)

\* the IQ a suspended handler has sent
QueryIq(cmd, service, n) ==
  CASE cmd = "version" -> VersionIq(service)
    [] cmd = "items" -> ItemsIq(service, n)
    [] cmd = "contact" -> ContactIq(service)

----------------------------------------------------------------------------
(* Stanzas *)

Jid(bare, resource) == [bare |-> bare, resource |-> resource]
Message(type, frm, mucnick, body) ==
  [type |-> type, frm |-> frm, mucnick |-> mucnick, body |-> body]
NoMsg == Message("none", Jid("", ""), "", << >>)

\* self.send_message(mto=msg['from'].bare, mbody=response, mtype='groupchat')
send_message(msg, response, n) ==
  [to |-> Jid(msg.frm.bare, ""), type |-> "groupchat", body |-> response, task |-> n]

\* msg.reply(response).send(): back to the sender, same type
reply_send(msg, response, n) ==
  [to |-> msg.frm, type |-> msg.type, body |-> response, task |-> n]

SendReply(handler, msg, response, n) ==
  IF handler = "muc" THEN send_message(msg, response, n) ELSE reply_send(msg, response, n)

----------------------------------------------------------------------------
(* The handlers as steps on the bot's state st = [tasks, sentIqs, pending, *)
(* wire, outbox].  A task is one call of handle_command made by a handler. *)

State(t, i, p, w, o) == [tasks |-> t, sentIqs |-> i, pending |-> p, wire |-> w, outbox |-> o]

\* `response = await self.handle_command(msg['body'])` and the send after
\* it, run until the coroutine suspends in iq.send() or ends
Invoke(st, handler, no, msg) ==
  LET r == handle_command(msg.body)
      n == Len(st.tasks) + 1
      base == [msgno |-> no, msg |-> msg, handler |-> handler, pc |-> "done",
               cmd |-> "", service |-> << >>, result |-> NoResult,
               response |-> << >>, exc |-> ""]
  IN IF r.kind = "return"
     THEN [st EXCEPT !.tasks = Append(@, [base EXCEPT !.response = r.text]),
                     !.outbox = Append(@, SendReply(handler, msg, r.text, n))]
     ELSE LET iq == QueryIq(r.cmd, r.service, n)
              sent == [id |-> iq.id, to |-> iq.to, query |-> iq.query, task |-> n]
          IN [st EXCEPT !.tasks = Append(@, [base EXCEPT !.pc = "await", !.cmd = r.cmd,
                                                         !.service = r.service]),
                        !.sentIqs = Append(@, sent),
                        !.pending = @ \cup {sent},
                        !.wire = @ \cup {sent}]

\* muc_message without the test on the sender's nickname
muc_message_anynick(st, no, msg) ==
  IF startswith(msg.body, Prefix)
  THEN Invoke(st, "muc", no, msg)
  ELSE st

\* the groupchat_message handler
muc_message(st, no, msg) ==
  IF msg.mucnick # Nick /\ startswith(msg.body, Prefix)
  THEN Invoke(st, "muc", no, msg)
  ELSE st

\* dm_message without the test on the message type
dm_message_anytype(st, no, msg) ==
  IF startswith(msg.body, Prefix)
  THEN Invoke(st, "dm", no, msg)
  ELSE st

\* the message handler
dm_message(st, no, msg) ==
  IF msg.type \in {"chat", "normal"} /\ startswith(msg.body, Prefix)
  THEN Invoke(st, "dm", no, msg)
  ELSE st

\* add_event_handler: every message stanza raises "message"; a message of
\* type groupchat also raises "groupchat_message"
Dispatch(st, no, msg) ==
  LET s1 == dm_message(st, no, msg)
  IN IF msg.type = "groupchat" THEN muc_message(s1, no, msg) ELSE s1

\* a suspended task n continues with the outcome o of its await
Continue(st, n, o) ==
  LET t == st.tasks[n]
      r == handle_command_resume(t.cmd, t.service, o)
  IN IF r.kind = "return"
     THEN [st EXCEPT !.tasks[n] = [t EXCEPT !.pc = "done", !.result = o, !.response = r.text],
                     !.outbox = Append(@, SendReply(t.handler, t.msg, r.text, n))]
     ELSE [st EXCEPT !.tasks[n] = [t EXCEPT !.pc = "raised", !.result = o, !.exc = r.exc]]

\* the IQ layer pairs an inbound result/error with a waiting request by the
\* id it carries
Matches(p, id, frm) == p.id = id

----------------------------------------------------------------------------
(* State machine *)

Cur == State(tasks, sentIqs, pending, wire, outbox)

Set(st) ==
  /\ tasks' = st.tasks
  /\ sentIqs' = st.sentIqs
  /\ pending' = st.pending
  /\ wire' = st.wire
  /\ outbox' = st.outbox

Init ==
  /\ tasks = << >>
  /\ sentIqs = << >>
  /\ pending = {}
  /\ wire = {}
  /\ outbox = << >>
  /\ nrecv = 0
  /\ lastMsg = NoMsg

\* an inbound message stanza is delivered to the registered handlers
Receive(msg) ==
  /\ nrecv' = nrecv + 1
  /\ lastMsg' = msg
  /\ Set(Dispatch(Cur, nrecv + 1, msg))

\* the service answers request r with outcome o (a result or an error, from
\* the address the request went to); a waiting request with that id resumes
ReplyArrives(r, o) ==
  /\ r \in wire
  /\ \E p \in pending :
       /\ Matches(p, r.id, r.to)
       /\ Set(Continue([Cur EXCEPT !.pending = @ \ {p}, !.wire = @ \ {r}], p.task, o))
  /\ UNCHANGED <<nrecv, lastMsg>>

\* an answer for which no request is waiting any more is dropped
LateReply(r) ==
  /\ r \in wire
  /\ ~ \E p \in pending : Matches(p, r.id, r.to)
  /\ wire' = wire \ {r}
  /\ UNCHANGED <<tasks, sentIqs, pending, outbox, nrecv, lastMsg>>

\* the request's timeout fires: iq.send() raises IqTimeout
Timeout(p) ==
  /\ p \in pending
  /\ Set(Continue([Cur EXCEPT !.pending = @ \ {p}], p.task, IqTimeout))
  /\ UNCHANGED <<nrecv, lastMsg>>

----------------------------------------------------------------------------
(* Inputs *)

VersionNs == "jabber:iq:version"
ItemsNs == "http://jabber.org/protocol/disco#items"
InfoNs == "http://jabber.org/protocol/disco#info"

VersionPayload(q, name, version, os) ==
  [query |-> q, name |-> name, version |-> version, os |-> os]
NoQuery == VersionPayload(FALSE, None, None, None)
ContactPayload(q, forms) == [query |-> q, forms |-> forms]
ItemsPayload(items) == [items |-> items]
Field(var, values) == [var |-> var, values |-> values]
Form(type, fields) == [type |-> type, fields |-> fields]

SeqsUpTo(S, n) == UNION {[1..k -> S] : k \in 0..n}

GroupchatSelf == [type |-> "groupchat", frm |-> Jid(Room, Nick), mucnick |-> Nick]
GroupchatOther == [type |-> "groupchat", frm |-> Jid(Room, "alice"), mucnick |-> "alice"]
ChatPeer == [type |-> "chat", frm |-> Jid(Peer, "phone"), mucnick |-> ""]
NormalPeer == [type |-> "normal", frm |-> Jid(Peer, "phone"), mucnick |-> ""]
HeadlinePeer == [type |-> "headline", frm |-> Jid(Peer, "phone"), mucnick |-> ""]

MsgsOf(senders, bodies) ==
  {Message(s.type, s.frm, s.mucnick, b) : s \in senders, b \in bodies}

ErrorText == <<"service-unavailable">>

\* 1. the bot among several users and services
SysBodies ==
  { <<"hello">>,
    <<Prefix, Space, "help">>,
    <<Prefix, Space, "version", Space, "a">>,
    <<Prefix, Space, "version", Space, "b">>,
    <<Prefix, Space, "contact", Space, "a">>,
    <<Prefix, Space, "contact", Space, "b">> }
SysMsgs == MsgsOf({GroupchatSelf, GroupchatOther, ChatPeer, NormalPeer}, SysBodies)

SysPayloads(r) ==
  CASE r.query = VersionNs ->
         {VersionPayload(TRUE, Some(<<"Prosody">>), Some(<<"0.12">>), None), NoQuery}
    [] r.query = InfoNs ->
         {ContactPayload(TRUE, <<Form("result", <<Field("admin-addresses", <<Some(<<"v1">>)>>)>>)>>)}

Outcomes(r, payloads) ==
  {IqResult(r.to, p) : p \in payloads} \cup {IqError(r.to, ErrorText)}

Next ==
  \/ nrecv < MaxMsgs /\ \E msg \in SysMsgs : Receive(msg)
  \/ \E r \in wire : \E o \in Outcomes(r, SysPayloads(r)) : ReplyArrives(r, o)
  \/ \E r \in wire : LateReply(r)
  \/ \E p \in pending : Timeout(p)

Spec == Init /\ [][Next]_vars

\* 2. one message, every body up to MaxBodyLen atoms, every shape of answer
DispatchAtoms == {Prefix, Space, Tab, "help", "version", "items", "contact", "foo"}
DispatchSenders == {HeadlinePeer, NormalPeer, GroupchatOther}
DispatchBodies(k) == [1..k -> DispatchAtoms]

DispatchPayloads(r) ==
  CASE r.query = VersionNs ->
         {VersionPayload(TRUE, n, v, os) :
            n \in {None, Some(<<"Prosody">>)},
            v \in {None, Some(<<"0.12">>)},
            os \in {None, Some(<< >>), Some(<<"Linux">>)}} \cup {NoQuery}
    [] r.query = ItemsNs ->
         {ItemsPayload(<< >>),
          ItemsPayload(<<[jid |-> <<"c">>, name |-> Some(<<"Chat">>)],
                         [jid |-> <<"d">>, name |-> None]>>)}
    [] r.query = InfoNs ->
         {ContactPayload(FALSE, << >>),
          ContactPayload(TRUE, << >>),
          ContactPayload(TRUE, <<Form("result",
             <<Field("admin-addresses", <<Some(<<"v1">>), Some(<<"v2">>)>>),
               Field("irrelevant-field", <<Some(<<"v3">>)>>)>>)>>)}

NextDispatch ==
  \/ nrecv = 0 /\ \E s \in DispatchSenders, k \in 0..MaxBodyLen :
                    \E body \in DispatchBodies(k) :
                      Receive(Message(s.type, s.frm, s.mucnick, body))
  \/ \E r \in wire : \E o \in Outcomes(r, DispatchPayloads(r)) : ReplyArrives(r, o)
  \/ \E r \in wire : LateReply(r)
  \/ \E p \in pending : Timeout(p)

SpecDispatch == Init /\ [][NextDispatch]_vars

\* 3. one contact command, every disco#info result of up to MaxForms data
\*    forms with up to MaxFields fields each
ContactVars == {"admin-addresses", "support-addresses", "irrelevant-field"}
ValueLists ==
  {<< >>, <<Some(<<"v1">>)>>, <<Some(<<"v2">>)>>, <<Some(<<"v1">>), Some(<<"v2">>)>>}
ContactFields == {Field(var, vs) : var \in ContactVars, vs \in ValueLists}
ContactForms ==
  {Form(type, fs) : type \in {"result", "form"}, fs \in SeqsUpTo(ContactFields, MaxFields)}
ContactMsgs == MsgsOf({ChatPeer}, {<<Prefix, Space, "contact", Space, "a">>})

ContactPayloads(r) ==
  {ContactPayload(TRUE, forms) : forms \in SeqsUpTo(ContactForms, MaxForms)}
  \cup {ContactPayload(FALSE, << >>)}

NextContact ==
  \/ nrecv = 0 /\ \E msg \in ContactMsgs : Receive(msg)
  \/ \E r \in wire : \E o \in Outcomes(r, ContactPayloads(r)) : ReplyArrives(r, o)
  \/ \E r \in wire : LateReply(r)
  \/ \E p \in pending : Timeout(p)

SpecContact == Init /\ [][NextContact]_vars

----------------------------------------------------------------------------
(* Vocabulary of the properties *)

Tasks == 1..Len(tasks)
Iqs == 1..Len(sentIqs)
Replies == 1..Len(outbox)

Parts(body) == split(body, Space, 2)
\* the command name a body carries: its second space-separated field
CommandName(body) == IF Len(Parts(body)) >= 2 THEN strip(Parts(body)[2]) ELSE << >>
HasArgument(body) == Len(Parts(body)) >= 3
Blank(s) == \A i \in 1..Len(s) : s[i] \in Whitespace
\* the argument is missing or consists only of whitespace
NoArgument(body) == ~HasArgument(body) \/ Blank(Parts(body)[3])

Trim(s) ==
  LET keep == {i \in 1..Len(s) : s[i] \notin Whitespace} IN
  IF keep = {} THEN << >>
  ELSE SubSeq(s, CHOOSE i \in keep : \A j \in keep : i <= j,
                 CHOOSE i \in keep : \A j \in keep : j <= i)

IsSelfGroupchat(m) == m.type = "groupchat" /\ m.mucnick = Nick
QueryCommands == {<<"version">>, <<"items">>, <<"contact">>}
UsageOf(c) ==
  CASE c = <<"version">> -> VersionUsage
    [] c = <<"items">> -> ItemsUsage
    [] c = <<"contact">> -> ContactUsage
IqsOf(n) == {i \in Iqs : sentIqs[i].task = n}
RepliesOf(n) == {i \in Replies : outbox[i].task = n}
Answered(n) == tasks[n].result.type = "result"

RECURSIVE ValuesIn(_, _)
\* the values of the fields named var, in document order
ValuesIn(fields, var) ==
  IF fields = << >> THEN << >>
  ELSE (IF Head(fields).var = var THEN Head(fields).values ELSE << >>)
       \o ValuesIn(Tail(fields), var)

RECURSIVE ResultFields(_)
\* the fields of the forms of type result, in document order
ResultFields(forms) ==
  IF forms = << >> THEN << >>
  ELSE (IF Head(forms).type = "result" THEN Head(forms).fields ELSE << >>)
       \o ResultFields(Tail(forms))

ExpectedContactInfo(forms) ==
  LET fs == ResultFields(forms)
      cats == {fs[i].var : i \in 1..Len(fs)} \cap ContactCategories
  IN [c \in cats |-> ValuesIn(fs, c)]

DictMap(d) == [c \in {d[i].var : i \in 1..Len(d)} |->
                 d[CHOOSE i \in 1..Len(d) : d[i].var = c].values]

\* "<S> is running <N> <V>" for a version task answered with N and V
VersionBase(n) ==
  Trim(Parts(tasks[n].msg.body)[3]) \o <<" is running ">>
  \o tasks[n].result.payload.name[1] \o <<" ">> \o tasks[n].result.payload.version[1]

VersionAnswered(n) ==
  /\ tasks[n].cmd = "version"
  /\ Answered(n)
  /\ tasks[n].result.payload.query
  /\ tasks[n].result.payload.name # None
  /\ tasks[n].result.payload.version # None

----------------------------------------------------------------------------
(* C1: every IQ the bot sends has a non-empty id, and no two IQs sent over *)
(* the life of the stream carry the same id.                               *)
IqIdsUnique ==
  \A i, j \in Iqs :
    /\ sentIqs[i].id # << >>
    /\ i # j => sentIqs[i].id # sentIqs[j].id

(* C2: a handler that got an answer got the answer of its own target: the  *)
(* result it formats was sent by the service it asked.                     *)
NoCrossTalk ==
  \A n \in Tasks : Answered(n) => tasks[n].result.frm = tasks[n].service

(* C3: no call of handle_command ends in an exception: every outcome of    *)
(* the query is turned into a string, a fault into one line naming the     *)
(* service and the reason.                                                 *)
DispatchNeverRaises ==
  \A n \in Tasks :
    /\ tasks[n].pc # "raised"
    /\ (tasks[n].pc = "done" /\ tasks[n].result.type \in {"error", "timeout"})
         => \E pre \in {<<"Could not retrieve version for ">>,
                        <<"Could not retrieve items for ">>,
                        <<"Could not retrieve contact information for ">>} :
              tasks[n].response = pre \o tasks[n].service \o <<": ">> \o ExcText(tasks[n].result)

(* C4: a groupchat message sent under the bot's own nickname starts no     *)
(* call of handle_command, no IQ and no reply, whatever its body.          *)
SelfMessagesIgnored ==
  /\ \A n \in Tasks : ~IsSelfGroupchat(tasks[n].msg)
  /\ \A i \in Iqs : ~IsSelfGroupchat(tasks[sentIqs[i].task].msg)
  /\ \A i \in Replies : ~IsSelfGroupchat(tasks[outbox[i].task].msg)
  /\ IsSelfGroupchat(lastMsg) => \A n \in Tasks : tasks[n].msgno # nrecv

\* a triggering groupchat message under the bot's own nickname has arrived
SelfTriggerReceived ==
  /\ IsSelfGroupchat(lastMsg)
  /\ startswith(lastMsg.body, Prefix)
  /\ CommandName(lastMsg.body) \in commands

(* C5: a recognized command is answered: once its handler has ended, a     *)
(* reply with a non-empty body has been sent for it (a handler that ended  *)
(* without one never sends one).                                           *)
RecognizedCommandAnswered ==
  \A n \in Tasks :
    (CommandName(tasks[n].msg.body) \in commands /\ tasks[n].pc # "await")
      => \E i \in RepliesOf(n) : outbox[i].body # << >>

(* C6: a command name outside the table gets the fixed unknown-command     *)
(* message, whatever follows it, and no IQ is sent for it.                 *)
UnknownCommandReply ==
  \A n \in Tasks :
    LET c == CommandName(tasks[n].msg.body) IN
    (c # << >> /\ c \notin commands)
      => /\ tasks[n].pc = "done"
         /\ tasks[n].response = UnknownMsg
         /\ IqsOf(n) = {}
         /\ \E i \in RepliesOf(n) : outbox[i].body = UnknownMsg

\* an unknown command followed by an argument has been handled
UnknownCommandWithArgument ==
  \E n \in Tasks :
    /\ CommandName(tasks[n].msg.body) = <<"foo">>
    /\ HasArgument(tasks[n].msg.body)
    /\ ~Blank(Parts(tasks[n].msg.body)[3])
    /\ RepliesOf(n) # {}

(* C7: version, items and contact with a missing or whitespace-only        *)
(* argument return the command's usage text (a description line, then a    *)
(* Usage: line) and send no IQ; an IQ is sent only for a non-blank         *)
(* argument.                                                               *)
UsageOnBlankArgument ==
  /\ \A n \in Tasks :
       LET c == CommandName(tasks[n].msg.body) IN
       (c \in QueryCommands /\ NoArgument(tasks[n].msg.body))
         => /\ tasks[n].pc = "done"
            /\ tasks[n].response = UsageOf(c)
            /\ Len(tasks[n].response) = 3 /\ tasks[n].response[2] = NL
            /\ IqsOf(n) = {}
  /\ \A i \in Iqs : ~NoArgument(tasks[sentIqs[i].task].msg.body)

\* a version command whose argument is only whitespace has been handled
WhitespaceArgumentHandled ==
  \E n \in Tasks :
    /\ CommandName(tasks[n].msg.body) = <<"version">>
    /\ HasArgument(tasks[n].msg.body)
    /\ Parts(tasks[n].msg.body)[3] # << >>
    /\ Blank(Parts(tasks[n].msg.body)[3])
    /\ RepliesOf(n) # {}

(* C8: the contact information decoded from a disco#info result maps       *)
(* exactly the recognized categories that occur as field var in a form of  *)
(* type result, each to all the value texts of those fields in document    *)
(* order; when there is none, the reply is the no-contact-information line.*)
ContactInfoCollectsAll ==
  \A n \in Tasks :
    (tasks[n].cmd = "contact" /\ Answered(n) /\ tasks[n].result.payload.query)
      => LET forms == tasks[n].result.payload.forms
             expected == ExpectedContactInfo(forms)
         IN /\ tasks[n].pc = "done"
            /\ DictMap(get_service_contact_info(tasks[n].result).text) = expected
            /\ (DOMAIN expected = {})
                 => tasks[n].response =
                      <<"No contact information found for service ">> \o tasks[n].service
                      \o <<".">>

(* C9 as stated: a successful version query with name N and version V is   *)
(* answered "<S> is running <N> <V>." when os is absent, and by that text  *)
(* with " on <O>" appended when an os text O is present.                   *)
VersionReplyAppendsOs ==
  \A n \in Tasks :
    VersionAnswered(n)
      => LET os == tasks[n].result.payload.os IN
         /\ tasks[n].pc = "done"
         /\ os = None => tasks[n].response = VersionBase(n) \o <<".">>
         /\ Truthy(os) => tasks[n].response = VersionBase(n) \o <<".">> \o <<" on ">> \o os[1]

(* C9 amended: the answer is "<S> is running <N> <V>." when os is absent   *)
(* or empty, and "<S> is running <N> <V> on <O>." when os O is present and *)
(* not empty: " on <O>" stands before the final full stop.  S is the       *)
(* argument without its surrounding whitespace.                            *)
VersionReplyFormat ==
  \A n \in Tasks :
    VersionAnswered(n)
      => LET os == tasks[n].result.payload.os IN
         /\ tasks[n].pc = "done"
         /\ (os = None \/ os = Some(<< >>))
              => tasks[n].response = VersionBase(n) \o <<".">>
         /\ (os # None /\ os # Some(<< >>))
              => tasks[n].response = VersionBase(n) \o <<" on ">> \o os[1] \o <<".">>
         /\ \E i \in RepliesOf(n) : outbox[i].body = tasks[n].response

\* a version query answered with an os has been formatted
VersionWithOsAnswered ==
  \E n \in Tasks :
    /\ VersionAnswered(n)
    /\ tasks[n].result.payload.os = Some(<<"Linux">>)
    /\ RepliesOf(n) # {}

(* C10: every reply is caused by one earlier message whose body starts     *)
(* with the trigger: a groupchat message of another nickname, answered to  *)
(* the room's bare JID with type groupchat, or a message of type chat or   *)
(* normal, answered to its sender; a message causes at most one reply, and *)
(* a body without the trigger causes no reply and no IQ.                   *)
RepliesFollowTriggers ==
  /\ \A i \in Replies :
       LET m == tasks[outbox[i].task].msg IN
       /\ tasks[outbox[i].task].msgno \in 1..nrecv
       /\ startswith(m.body, Prefix)
       /\ \/ /\ m.type = "groupchat" /\ m.mucnick # Nick
             /\ outbox[i].to = Jid(m.frm.bare, "") /\ outbox[i].type = "groupchat"
          \/ /\ m.type \in {"chat", "normal"}
             /\ outbox[i].to = m.frm
  /\ \A i, j \in Replies :
       i # j => tasks[outbox[i].task].msgno # tasks[outbox[j].task].msgno
  /\ \A n \in Tasks : startswith(tasks[n].msg.body, Prefix)
  /\ \A i \in Iqs : startswith(tasks[sentIqs[i].task].msg.body, Prefix)
  /\ (nrecv > 0 /\ ~startswith(lastMsg.body, Prefix))
       => \A n \in Tasks : tasks[n].msgno # nrecv

\* a groupchat trigger and a direct trigger have both been answered
BothOriginsAnswered ==
  /\ \E i \in Replies : outbox[i].type = "groupchat" /\ outbox[i].to = Jid(Room, "")
  /\ \E i \in Replies : outbox[i].type = "chat" /\ outbox[i].to = Jid(Peer, "phone")

====
